---- MODULE Spec2Model ----
(***************************************************************************)
(* Model of the pipecat-cloud control-plane client:                        *)
(*   - the API client _API (api.py): _base_request, the create_api_method  *)
(*     wrapper with its one-shot bubble flag, print_error, bubble_error;   *)
(*   - the deploy orchestrator _deploy (cli/commands/deploy.py): existence *)
(*     check, pre-flight checks, create-or-update, bounded polling.        *)
(*                                                                         *)
(* Python values are records tagged by `kind`.  An optional dictionary key *)
(* is a set of at most one element (empty = key absent).                   *)
(***************************************************************************)
EXTENDS Integers, Sequences, FiniteSets, TLC

\* ------------------------------------------------------------------ values

None == [kind |-> "None"]

\* self.error is None or the integer HTTP status (api.py:64)
IntErr(s) == [kind |-> "int", status |-> s]

\* a Python list, by its length
List(n) == [kind |-> "list", len |-> n]

\* one entry of a deployment status' "errors" list
StructuredError == [code |-> "PCC-1000", message |-> "m"]
UnstructuredError == [detail |-> "x"]
ErrorLists == {<< >>, <<StructuredError>>, <<UnstructuredError>>,
               <<StructuredError, UnstructuredError>>}

\* the body of a GET services/{agent} response: a dict with optional keys
AgentStatuses ==
    [kind : {"status"},
     errors : {{}} \cup {{e} : e \in ErrorLists},
     activeDeploymentReady : {{}, {TRUE}, {FALSE}},
     activeDeploymentId : {{}, {"d1"}, {"d2"}},
     other : BOOLEAN]

\* dict.get(key, default) on an optional key
Get(field, default) == IF field = {} THEN default ELSE CHOOSE v \in field : TRUE

\* JSON payloads of the three endpoints the orchestrator uses
AgentPayloads ==
    {None} \cup [kind : {"agentjson"}, body : {{}} \cup {{b} : b \in AgentStatuses \cup {None}}]
SecretsPayloads ==
    {None} \cup [kind : {"secretsjson"}, sets : {{}, {List(0)}, {List(1)}},
                 secrets : {{}, {List(0)}, {List(2)}}]
DeployPayloads ==
    {None} \cup [kind : {"deployjson"}, empty : BOOLEAN]

\* Python truthiness of the values above
Truthy(v) ==
    CASE v.kind = "None" -> FALSE
      [] v.kind = "list" -> v.len > 0
      [] v.kind = "status" ->
            \/ v.other
            \/ v.errors # {}
            \/ v.activeDeploymentReady # {}
            \/ v.activeDeploymentId # {}
      [] v.kind = "deployjson" -> ~v.empty
      [] v.kind = "int" -> v.status # 0
      [] OTHER -> TRUE

\* ------------------------------------------------------------- responses

\* HTTP statuses the remote API answers with
Statuses == {200, 400, 401, 404, 500}

\* a transport failure (DNS, refused, timeout): session.request raises and
\* there is no response object
Transport == [kind |-> "transport"]

Http(s, j) == [kind |-> "http", status |-> s, json |-> j]

\* the JSON body of an error response (never read by _base_request)
ErrorPayloads == {None, [kind |-> "errjson", code |-> "400", error |-> "bad request"]}

Responses(payloads) ==
    {Transport}
    \cup {Http(200, j) : j \in payloads}
    \cup {Http(s, j) : s \in Statuses \ {200}, j \in ErrorPayloads}

\* response.ok (aiohttp): status below 400
Ok(resp) == resp.status < 400

\* ------------------------------------------------------------ API client

\* mutant of BaseRequest: not_found_is_empty is not consulted
BaseRequestNoFlag(resp, not_found_is_empty, err) ==
    IF resp.kind = "transport"
    THEN [raised |-> TRUE, value |-> None, error |-> err]
    ELSE IF ~Ok(resp)
         THEN [raised |-> TRUE, value |-> None, error |-> IntErr(resp.status)]
         ELSE [raised |-> FALSE, value |-> resp.json, error |-> err]

\* _API._base_request: the outcome of one request given its response.
\* `err` is self.error on entry; the outcome carries self.error on exit.
BaseRequest(resp, not_found_is_empty, err) ==
    IF resp.kind = "transport"
    THEN [raised |-> TRUE, value |-> None, error |-> err]
    ELSE IF ~Ok(resp)
         THEN IF not_found_is_empty /\ resp.status = 404
              THEN [raised |-> FALSE, value |-> None, error |-> err]
              ELSE [raised |-> TRUE, value |-> None, error |-> IntErr(resp.status)]
         ELSE [raised |-> FALSE, value |-> resp.json, error |-> err]

\* _API._agent: GET services/{agent_name}, not_found_is_empty=True
ApiAgent(resp, err) ==
    LET r == BaseRequest(resp, TRUE, err) IN
    IF r.raised THEN r
    ELSE [r EXCEPT !.value =
            IF Truthy(r.value) /\ r.value.body # {}
            THEN Get(r.value.body, None)
            ELSE None]

\* _API._secrets_list: GET secrets[/{secret_set}], not_found_is_empty=True
ApiSecretsList(resp, err) ==
    LET r == BaseRequest(resp, TRUE, err) IN
    IF r.raised THEN r
    ELSE [r EXCEPT !.value =
            IF ~Truthy(r.value) THEN None
            ELSE IF r.value.sets # {} THEN Get(r.value.sets, None)
            ELSE IF r.value.secrets # {} THEN Get(r.value.secrets, None)
            ELSE None]

\* mutant of DeployMethod: the two branches swapped
DeployMethodSwapped(update) == IF update THEN "POST" ELSE "PUT"

\* _API._deploy: the HTTP method of the submission
DeployMethod(update) == IF update THEN "PUT" ELSE "POST"

\* _API._deploy: PUT or POST services, no not_found_is_empty
ApiDeploy(resp, err) == BaseRequest(resp, FALSE, err)

\* _API.print_error: whether a presentation reaches the console
PrintError(err) == Truthy(err)

\* mutant of Wrapper: the flag is cleared on the failure path only
WrapperKeepsFlagOnSuccess(m, bn) ==
    IF ~m.raised
    THEN [result |-> m.value, error |-> m.error, present |-> FALSE,
          bubble_next |-> bn]
    ELSE [result |-> None, error |-> m.error,
          present |-> Truthy(m.error) /\ ~bn,
          bubble_next |-> FALSE]

\* mutant of Wrapper: the failure path presents without reading the flag
WrapperIgnoresBubble(m, bn) ==
    IF ~m.raised
    THEN [result |-> m.value, error |-> m.error, present |-> FALSE,
          bubble_next |-> FALSE]
    ELSE [result |-> None, error |-> m.error,
          present |-> Truthy(m.error),
          bubble_next |-> FALSE]

\* _API.create_api_method.wrapper: `m` is the outcome of the wrapped method
\* run with self.error reset to None, `bn` is self.bubble_next on entry.
Wrapper(m, bn) ==
    IF ~m.raised
    THEN [result |-> m.value, error |-> m.error, present |-> FALSE,
          bubble_next |-> FALSE]
    ELSE [result |-> None, error |-> m.error,
          present |-> Truthy(m.error) /\ ~bn /\ PrintError(m.error),
          bubble_next |-> FALSE]

\* ------------------------------------------------- deploy orchestrator

MAX_ALIVE_CHECKS == 18

VARIABLES
    error,                  \* _API.error
    bubble_next,            \* _API.bubble_next
    presented,              \* number of presentations made by print_error
    pc,                     \* position of _deploy (or "api" for direct client use)
    params,                 \* DeployConfigParams fields _deploy reads
    force,                  \* _deploy's force argument
    existing_agent,
    active_deployment_id,
    is_ready,
    checks_performed,
    outcome,                \* how the invocation ended
    calls,                  \* remote requests issued, in order
    sleeps,                 \* asyncio.sleep calls started
    hist,                   \* what the environment answered (history)
    lastCall,               \* direct client use: the last call made
    steps,                  \* direct client use: operations so far
    cfg                     \* the deploy command's inputs and configuration

vars == <<error, bubble_next, presented, pc, params, force, existing_agent,
          active_deployment_id, is_ready, checks_performed, outcome, calls,
          sleeps, hist, lastCall, steps, cfg>>

clientVars == <<error, bubble_next, presented>>
pollVars == <<active_deployment_id, is_ready, checks_performed>>
apiVars == <<lastCall, steps>>
configVars == <<cfg>>

Call(site, method, path) == [site |-> site, method |-> method, path |-> path]

Count(site) == Cardinality({i \in DOMAIN calls : calls[i].site = site})

\* ---- what the environment reported (history only, not read by the code)

\* the existence lookup's answer
ExistsReport(resp) ==
    IF resp.kind = "transport" THEN "transport"
    ELSE IF resp.status = 404 THEN "absent"
    ELSE IF ~Ok(resp) THEN "error"
    ELSE IF resp.json.kind = "agentjson" /\ resp.json.body # {}
            /\ Get(resp.json.body, None).kind = "status"
            /\ Truthy(Get(resp.json.body, None))
         THEN "present"
         ELSE "nostatus"

\* a secret-set / credential-set lookup's answer
SetReport(resp) ==
    IF resp.kind = "transport" THEN "transport"
    ELSE IF resp.status = 404 THEN "absent"
    ELSE IF ~Ok(resp) THEN "error"
    ELSE IF resp.json.kind = "secretsjson"
            /\ \/ resp.json.sets # {} /\ Get(resp.json.sets, None).len > 0
               \/ resp.json.sets = {} /\ resp.json.secrets # {}
                  /\ Get(resp.json.secrets, None).len > 0
         THEN "present"
         ELSE "empty"

\* a polled status: is it a status at all, does it carry errors, is it ready
PollReport(resp) ==
    IF resp.kind = "http" /\ Ok(resp) /\ resp.json.kind = "agentjson"
       /\ resp.json.body # {} /\ Get(resp.json.body, None).kind = "status"
    THEN LET s == Get(resp.json.body, None) IN
         [valid |-> TRUE,
          hasErrors |-> Len(Get(s.errors, << >>)) > 0,
          ready |-> Get(s.activeDeploymentReady, FALSE),
          status |-> 200]
    ELSE [valid |-> FALSE, hasErrors |-> FALSE, ready |-> FALSE,
          status |-> IF resp.kind = "http" THEN resp.status ELSE 0]

Pending(r) == r.valid /\ ~r.hasErrors /\ ~r.ready

NoReport == "none"

HistInit ==
    [exists |-> NoReport, secret |-> NoReport, creds |-> NoReport,
     credsStatus |-> 0, credsCode400 |-> FALSE,
     submit |-> NoReport, firstId |-> "None", otherId |-> FALSE,
     polled |-> 0, pendingPrefix |-> 0,
     lastPoll |-> [valid |-> FALSE, hasErrors |-> FALSE, ready |-> FALSE, status |-> 0],
     interruptedAt |-> -1, interruptedCalls |-> -1, interruptedIn |-> "none"]

\* ---- _deploy, one action per stretch of code between two awaits

\* `if v:` on an optional string: None and the empty string are false
IsSet(v) == v \notin {"None", ""}

Bump(n, b) == IF b THEN n + 1 ELSE n

\* the pre-flight checks taken in the other order, the first one only
AfterCheckCredsFirst == IF IsSet(params.image_credentials) THEN "creds"
                        ELSE IF IsSet(params.secret_set) THEN "secret"
                        ELSE "submit"

\* where _deploy goes after the existence check: the first pre-flight check
\* its parameters ask for, or the submission
AfterCheck == IF IsSet(params.secret_set) THEN "secret"
              ELSE IF IsSet(params.image_credentials) THEN "creds"
              ELSE "submit"

AfterSecret == IF IsSet(params.image_credentials) THEN "creds" ELSE "submit"

\* the loop had it run two attempts past the limit
LoopContinuesPastLimit(cp) == cp < MAX_ALIVE_CHECKS + 2

\* mutant of LoopContinues: off by one
LoopContinuesOneMore(cp) == cp <= MAX_ALIVE_CHECKS

\* the while condition of the polling loop
LoopContinues(cp) == cp < MAX_ALIVE_CHECKS

\* after the loop: success message or the "did not enter ready state" error
AfterLoop(ready) == IF ready THEN "Ready" ELSE "TimedOut"

\* the existence check's verdict on the lookup's data
ExistingAgent(data) == Truthy(data)

\* error.get("code") on the value the client returns as error: an int has no
\* attribute get, so the expression raises AttributeError
ErrorGetRaises(e) == e.kind = "int"

\* agent_status.get(...) on the polled status: None has no attribute get
StatusGetRaises(agent_status) == agent_status.kind = "None"

\* mutant of SecretSetVerified: only a returned error stops the deployment
SecretSetVerifiedUnlessError(err, secrets_exist) == ~Truthy(err)

\* deploy.py:74-82: whether _deploy goes on after the secret-set lookup
SecretSetVerified(err, secrets_exist) ==
    IF Truthy(err) THEN FALSE
    ELSE IF ~Truthy(secrets_exist) THEN FALSE
    ELSE TRUE

\* mutant of OnKeyboardInterrupt: the handler resumes the loop
OnKeyboardInterruptResume == [pc |-> "poll", outcome |-> "None"]

\* deploy.py:193-198: the KeyboardInterrupt handler returns at once
OnKeyboardInterrupt == [pc |-> "done", outcome |-> "Interrupted"]

NoCall ==
    [made |-> FALSE, pendingBubble |-> FALSE, bubble |-> FALSE,
     prevBubble |-> FALSE, method |-> "none", http |-> "none", not_found_is_empty |-> FALSE,
     status |-> 0, code400 |-> FALSE, result |-> None, error |-> None,
     errorBefore |-> None,
     presentedBefore |-> 0, presentedAfter |-> 0]

Init ==
    /\ error = None
    /\ bubble_next = FALSE
    /\ presented = 0
    /\ pc = "check"
    /\ params \in [secret_set : {"None", "my-secrets"},
                   image_credentials : {"None", "my-creds"}]
    /\ force \in BOOLEAN
    /\ existing_agent = FALSE
    /\ active_deployment_id = "None"
    /\ is_ready = FALSE
    /\ checks_performed = 0
    /\ outcome = "None"
    /\ calls = << >>
    /\ sleeps = 0
    /\ hist = HistInit
    /\ lastCall = NoCall
    /\ steps = 0
    /\ cfg = None

End(o) == pc' = "done" /\ outcome' = o

\* deploy.py:35-59: look up the deployment, decide create or update
CheckExisting ==
    /\ pc = "check"
    /\ \E resp \in Responses(AgentPayloads) :
        LET w == Wrapper(ApiAgent(resp, None), bubble_next) IN
        /\ error' = w.error
        /\ bubble_next' = w.bubble_next
        /\ presented' = Bump(presented, w.present)
        /\ calls' = Append(calls, Call("check", "GET", "services/agent"))
        /\ hist' = [hist EXCEPT !.exists = ExistsReport(resp)]
        /\ IF Truthy(w.error)
           THEN End("Failed") /\ UNCHANGED existing_agent
           ELSE IF ExistingAgent(w.result)
                THEN /\ existing_agent' = TRUE
                     /\ pc' = IF ~force THEN "confirm" ELSE AfterCheck
                     /\ UNCHANGED outcome
                ELSE /\ pc' = AfterCheck
                     /\ UNCHANGED <<existing_agent, outcome>>
    /\ UNCHANGED <<params, force, sleeps>>
    /\ UNCHANGED pollVars
    /\ UNCHANGED apiVars
    /\ UNCHANGED configVars

\* deploy.py:52-59: typer.confirm on updating an existing deployment
ConfirmUpdate ==
    /\ pc = "confirm"
    /\ \E answer \in BOOLEAN :
        IF answer
        THEN pc' = AfterCheck /\ UNCHANGED outcome
        ELSE End("Cancelled")
    /\ UNCHANGED <<params, force, existing_agent, calls, sleeps, hist>>
    /\ UNCHANGED clientVars
    /\ UNCHANGED pollVars
    /\ UNCHANGED apiVars
    /\ UNCHANGED configVars

\* deploy.py:66-82: verify the secret set exists
VerifySecretSet ==
    /\ pc = "secret"
    /\ \E resp \in Responses(SecretsPayloads) :
        LET w == Wrapper(ApiSecretsList(resp, None), bubble_next) IN
        /\ error' = w.error
        /\ bubble_next' = w.bubble_next
        /\ presented' = Bump(presented, w.present)
        /\ calls' = Append(calls, Call("secret", "GET", "secrets/set"))
        /\ hist' = [hist EXCEPT !.secret = SetReport(resp)]
        /\ IF SecretSetVerified(w.error, w.result)
           THEN pc' = AfterSecret /\ UNCHANGED outcome
           ELSE End("Failed")
    /\ UNCHANGED <<params, force, existing_agent, sleeps>>
    /\ UNCHANGED pollVars
    /\ UNCHANGED apiVars
    /\ UNCHANGED configVars

\* deploy.py:87-108: verify the image pull secret exists, in bubble mode
VerifyImageCredentials ==
    /\ pc = "creds"
    /\ \E resp \in Responses(SecretsPayloads) :
        LET w == Wrapper(ApiSecretsList(resp, None), TRUE) IN
        /\ error' = w.error
        /\ bubble_next' = w.bubble_next
        /\ calls' = Append(calls, Call("creds", "GET", "secrets/set"))
        /\ hist' = [hist EXCEPT
                      !.creds = SetReport(resp),
                      !.credsStatus = IF resp.kind = "http" THEN resp.status ELSE 0,
                      !.credsCode400 = resp.kind = "http" /\ resp.status = 400
                                       /\ resp.json.kind = "errjson"
                                       /\ resp.json.code = "400"]
        /\ IF Truthy(w.error)
           THEN IF ErrorGetRaises(w.error)
                THEN End("Crashed") /\ presented' = Bump(presented, w.present)
                ELSE IF w.error.code = "400"
                     THEN /\ pc' = "submit"
                          /\ presented' = Bump(presented, w.present)
                          /\ UNCHANGED outcome
                     ELSE /\ End("Failed")
                          /\ presented' = Bump(Bump(presented, w.present),
                                               PrintError(w.error))
           ELSE \* `if not creds_exist` reports the missing set and falls through
                /\ pc' = "submit"
                /\ presented' = Bump(presented, w.present)
                /\ UNCHANGED outcome
    /\ UNCHANGED <<params, force, existing_agent, sleeps>>
    /\ UNCHANGED pollVars
    /\ UNCHANGED apiVars
    /\ UNCHANGED configVars

\* what API.deploy returned to _deploy (history)
SubmitReport(w) ==
    IF Truthy(w.error) THEN "error"
    ELSE IF ~Truthy(w.result) THEN "empty"
    ELSE "result"

\* the test had it not looked at existing_agent
SubmitRejectedAlways(existing, result) == ~Truthy(result)

\* deploy.py:123: `if not existing_agent and not result`
SubmitRejected(existing, result) == ~existing /\ ~Truthy(result)

\* deploy.py:116-139: create or update, then enter the polling loop
Submit ==
    /\ pc = "submit"
    /\ \E resp \in Responses(DeployPayloads) :
        LET w == Wrapper(ApiDeploy(resp, None), bubble_next) IN
        /\ error' = w.error
        /\ bubble_next' = w.bubble_next
        /\ presented' = Bump(presented, w.present)
        /\ calls' = Append(calls,
                Call("submit", DeployMethod(existing_agent), "services"))
        /\ IF Truthy(w.error) THEN End("Failed") /\ UNCHANGED pollVars
           ELSE IF SubmitRejected(existing_agent, w.result)
                THEN End("Failed") /\ UNCHANGED pollVars
                ELSE /\ active_deployment_id' = "None"
                     /\ is_ready' = FALSE
                     /\ checks_performed' = 0
                     /\ IF LoopContinues(0)
                        THEN pc' = "poll" /\ UNCHANGED outcome
                        ELSE End(AfterLoop(FALSE))
        /\ hist' = [hist EXCEPT !.submit = SubmitReport(w)]
    /\ UNCHANGED <<params, force, existing_agent, sleeps>>
    /\ UNCHANGED apiVars
    /\ UNCHANGED configVars

\* deploy.py:147-153: top of a loop iteration, the status lookup is issued
\* (the wrapper clears self.error before awaiting the request)
PollLookup ==
    /\ pc = "poll"
    /\ error' = None
    /\ calls' = Append(calls, Call("poll", "GET", "services/agent"))
    /\ pc' = "poll_wait"
    /\ UNCHANGED <<bubble_next, presented, params, force, existing_agent,
                   outcome, sleeps, hist>>
    /\ UNCHANGED pollVars
    /\ UNCHANGED apiVars
    /\ UNCHANGED configVars

\* the activeDeploymentId of a polled status the loop goes on with (a
\* status without errors), "None" where there is none
ReportedId(resp) ==
    IF PollReport(resp).valid /\ ~PollReport(resp).hasErrors
    THEN Get(Get(resp.json.body, None).activeDeploymentId, "None")
    ELSE "None"

\* the polled status is one the loop goes on with
Accepted(resp) == PollReport(resp).valid /\ ~PollReport(resp).hasErrors

\* the status a lookup returns, recorded in the history
Polled(resp) ==
    [hist EXCEPT
       !.firstId = IF @ = "None" THEN ReportedId(resp) ELSE @,
       !.otherId = @ \/ (hist.firstId # "None" /\ Accepted(resp)
                         /\ ReportedId(resp) # hist.firstId),
       !.polled = @ + 1,
       !.pendingPrefix = IF @ = hist.polled /\ Pending(PollReport(resp))
                         THEN @ + 1 ELSE @,
       !.lastPoll = PollReport(resp)]

\* the id taken from every status, whatever was recorded before
NextDeploymentIdLatest(current, agent_status) ==
    Get(agent_status.activeDeploymentId, "None")

\* deploy.py:176-177: the deployment id is recorded once
NextDeploymentId(current, agent_status) ==
    IF ~IsSet(current) /\ IsSet(Get(agent_status.activeDeploymentId, "None"))
    THEN Get(agent_status.activeDeploymentId, "None")
    ELSE current

\* mutant of HasStatusErrors: errors are looked at only while not ready
HasStatusErrorsUnlessReady(agent_status) ==
    /\ Len(Get(agent_status.errors, << >>)) > 0
    /\ ~Get(agent_status.activeDeploymentReady, FALSE)

\* deploy.py:159-160: the status carries reported errors
HasStatusErrors(agent_status) == Len(Get(agent_status.errors, << >>)) > 0

\* mutant of StatusReady: the wrong key is read, so the default applies
StatusReadyWrongKey(agent_status) == FALSE

\* deploy.py:185: the status reports the deployment ready
StatusReady(agent_status) == Get(agent_status.activeDeploymentReady, FALSE)

\* deploy.py:151-190: the lookup returns; the rest of the loop body up to the
\* sleep
PollStatus ==
    /\ pc = "poll_wait"
    /\ \E resp \in Responses(AgentPayloads) :
        LET w == Wrapper(ApiAgent(resp, None), bubble_next)
            agent_status == w.result
        IN
        /\ error' = w.error
        /\ bubble_next' = w.bubble_next
        /\ presented' = Bump(presented, w.present)
        /\ hist' = Polled(resp)
        /\ IF StatusGetRaises(agent_status)
           THEN End("Crashed") /\ UNCHANGED <<pollVars, sleeps>>
           ELSE IF HasStatusErrors(agent_status)
           THEN End("Failed") /\ UNCHANGED <<pollVars, sleeps>>
           ELSE IF Truthy(w.error)
           THEN End("Failed") /\ UNCHANGED <<pollVars, sleeps>>
           ELSE /\ active_deployment_id' =
                        NextDeploymentId(active_deployment_id, agent_status)
                /\ UNCHANGED checks_performed
                /\ IF StatusReady(agent_status)
                   THEN /\ is_ready' = TRUE
                        /\ End(AfterLoop(TRUE))
                        /\ UNCHANGED sleeps
                   ELSE /\ sleeps' = sleeps + 1
                        /\ pc' = "poll_sleep"
                        /\ UNCHANGED <<is_ready, outcome>>
    /\ UNCHANGED <<params, force, existing_agent, calls>>
    /\ UNCHANGED apiVars
    /\ UNCHANGED configVars

\* deploy.py:190-191,147: the sleep ends, the attempt is counted, the loop
\* condition is evaluated
PollWake ==
    /\ pc = "poll_sleep"
    /\ checks_performed' = checks_performed + 1
    /\ IF LoopContinues(checks_performed + 1)
       THEN pc' = "poll" /\ UNCHANGED outcome
       ELSE End(AfterLoop(is_ready))
    /\ UNCHANGED <<params, force, existing_agent, active_deployment_id,
                   is_ready, calls, sleeps, hist>>
    /\ UNCHANGED clientVars
    /\ UNCHANGED apiVars
    /\ UNCHANGED configVars

\* the positions of _deploy inside the try block of the polling loop
InPolling == {"poll", "poll_wait", "poll_sleep"}

\* deploy.py:193-198: KeyboardInterrupt raised inside the try block; it is
\* not an Exception, so the client's wrapper lets it through
Interrupt ==
    /\ pc \in InPolling
    /\ pc' = OnKeyboardInterrupt.pc
    /\ outcome' = OnKeyboardInterrupt.outcome
    /\ hist' = [hist EXCEPT !.interruptedAt = Count("poll"),
                            !.interruptedCalls = Len(calls),
                            !.interruptedIn = pc]
    /\ UNCHANGED <<params, force, existing_agent, calls, sleeps>>
    /\ UNCHANGED clientVars
    /\ UNCHANGED pollVars
    /\ UNCHANGED apiVars
    /\ UNCHANGED configVars

Next ==
    \/ CheckExisting
    \/ ConfirmUpdate
    \/ VerifySecretSet
    \/ VerifyImageCredentials
    \/ Submit
    \/ PollLookup
    \/ PollStatus
    \/ PollWake
    \/ Interrupt

Spec == Init /\ [][Next]_vars

\* ------------------------------------------- the client used directly

MaxSteps == 4

\* the client's methods: wrapped method, its not_found_is_empty, its payloads
Methods == {"agent", "secrets_list", "deploy"}

MethodResponses(m) ==
    CASE m = "agent" -> Responses(AgentPayloads)
      [] m = "secrets_list" -> Responses(SecretsPayloads)
      [] m = "deploy" -> Responses(DeployPayloads)

MethodOutcome(m, resp, err) ==
    CASE m = "agent" -> ApiAgent(resp, err)
      [] m = "secrets_list" -> ApiSecretsList(resp, err)
      [] m = "deploy" -> ApiDeploy(resp, err)

NotFoundIsEmpty(m) == m \in {"agent", "secrets_list"}

InitApi ==
    /\ error = None
    /\ bubble_next = FALSE
    /\ presented = 0
    /\ pc = "api"
    /\ params = [secret_set |-> "None", image_credentials |-> "None"]
    /\ force = FALSE
    /\ existing_agent = FALSE
    /\ active_deployment_id = "None"
    /\ is_ready = FALSE
    /\ checks_performed = 0
    /\ outcome = "None"
    /\ calls = << >>
    /\ sleeps = 0
    /\ hist = HistInit
    /\ lastCall = NoCall
    /\ steps = 0
    /\ cfg = None

deployVars == <<pc, params, force, existing_agent, outcome, sleeps, hist>>

\* api.py:102-104: bubble_error()
ApiBubbleError ==
    /\ pc = "api"
    /\ steps < MaxSteps
    /\ steps' = steps + 1
    /\ bubble_next' = TRUE
    /\ lastCall' = [lastCall EXCEPT !.pendingBubble = TRUE]
    /\ UNCHANGED <<error, presented, calls>>
    /\ UNCHANGED deployVars
    /\ UNCHANGED configVars
    /\ UNCHANGED pollVars

\* the wrapper had it left self.error as the previous call set it
ErrorOnEntryKept(err) == err

\* api.py:73: the wrapper resets self.error before running the method
ErrorOnEntry(err) == None

\* api.py:69-88: one call of a wrapped method, from entry to return
ApiCall ==
    /\ pc = "api"
    /\ steps < MaxSteps
    /\ steps' = steps + 1
    /\ \E m \in Methods : \E update \in BOOLEAN : \E resp \in MethodResponses(m) :
        LET w == Wrapper(MethodOutcome(m, resp, ErrorOnEntry(error)),
                         bubble_next) IN
        /\ m # "deploy" => ~update
        /\ error' = w.error
        /\ bubble_next' = w.bubble_next
        /\ presented' = Bump(presented, w.present)
        /\ lastCall' =
              [made |-> TRUE, pendingBubble |-> FALSE,
               http |-> IF m = "deploy" THEN DeployMethod(update) ELSE "GET",
               bubble |-> lastCall.pendingBubble,
               prevBubble |-> lastCall.made /\ lastCall.bubble,
               method |-> m, not_found_is_empty |-> NotFoundIsEmpty(m),
               status |-> IF resp.kind = "http" THEN resp.status ELSE 0,
               code400 |-> resp.kind = "http" /\ resp.status = 400
                           /\ resp.json.kind = "errjson" /\ resp.json.code = "400",
               result |-> w.result, error |-> w.error,
               errorBefore |-> error,
               presentedBefore |-> presented,
               presentedAfter |-> Bump(presented, w.present)]
    /\ UNCHANGED calls
    /\ UNCHANGED deployVars
    /\ UNCHANGED configVars
    /\ UNCHANGED pollVars

\* api.py:90-100: print_error() called by the client's user
ApiPrintError ==
    /\ pc = "api"
    /\ steps < MaxSteps
    /\ steps' = steps + 1
    /\ presented' = Bump(presented, PrintError(error))
    /\ UNCHANGED <<error, bubble_next, calls, lastCall>>
    /\ UNCHANGED deployVars
    /\ UNCHANGED configVars
    /\ UNCHANGED pollVars

NextApi ==
    \/ ApiBubbleError
    \/ ApiCall
    \/ ApiPrintError

SpecApi == InitApi /\ [][NextApi]_vars

\* ------------------------------------------------------------ properties

Submitted == Count("submit") > 0

\* C1: in a deploy invocation, a submission made after the existence lookup
\* reported the deployment absent is a create (POST), never an update; one
\* made after it reported a deployment present is an update (PUT), never a
\* create.
C1_CreateOrUpdateFollowsLookup ==
    \A i \in DOMAIN calls :
        calls[i].site = "submit" =>
            /\ hist.exists = "absent" => calls[i].method = "POST"
            /\ hist.exists = "present" => calls[i].method = "PUT"

C1_Witness ==
    /\ hist.exists = "present"
    /\ \E i \in DOMAIN calls : calls[i].site = "submit" /\ calls[i].method = "PUT"

\* C2: when a polled status has a non-empty errors list, the invocation ends
\* Failed on that tick: no lookup and no sleep follows it, whatever the number
\* of attempts left and also when the status reports ready.
C2_StatusErrorsFailAtOnce ==
    hist.lastPoll.hasErrors =>
        /\ pc = "done"
        /\ outcome = "Failed"
        /\ Count("poll") = hist.polled
        /\ sleeps = hist.polled - 1

C2_Witness ==
    /\ hist.lastPoll.hasErrors
    /\ hist.lastPoll.ready
    /\ hist.polled = 3
    /\ outcome = "Failed"

\* C3: no execution issues more than MAX_ALIVE_CHECKS polling lookups; when
\* MAX_ALIVE_CHECKS statuses in a row were not ready and error-free (and no
\* interrupt came), the invocation ends TimedOut, with exactly
\* MAX_ALIVE_CHECKS lookups issued; TimedOut is reported in no other case.
C3_TimedOutAfterMaxChecks ==
    /\ Count("poll") <= MAX_ALIVE_CHECKS
    /\ (hist.pendingPrefix = MAX_ALIVE_CHECKS /\ hist.interruptedAt = -1) =>
            /\ Count("poll") = MAX_ALIVE_CHECKS
            /\ pc \in {"poll_sleep", "done"}
            /\ pc = "done" => outcome = "TimedOut"
    /\ outcome = "TimedOut" =>
            /\ hist.pendingPrefix = MAX_ALIVE_CHECKS
            /\ Count("poll") = MAX_ALIVE_CHECKS

C3_Witness ==
    /\ outcome = "TimedOut"
    /\ hist.pendingPrefix = MAX_ALIVE_CHECKS
    /\ Count("poll") = MAX_ALIVE_CHECKS

\* C4: when the first k polled statuses were not ready and error-free and
\* the (k+1)-th is ready (and error-free), the invocation ends Ready with
\* exactly k+1 polling lookups and k sleeps.
C4_ReadyAfterKPending ==
    (/\ hist.polled > 0
     /\ hist.lastPoll.valid
     /\ hist.lastPoll.ready
     /\ ~hist.lastPoll.hasErrors
     /\ hist.pendingPrefix = hist.polled - 1) =>
        /\ pc = "done"
        /\ outcome = "Ready"
        /\ is_ready
        /\ Count("poll") = hist.pendingPrefix + 1
        /\ sleeps = hist.pendingPrefix

C4_Witness ==
    /\ outcome = "Ready"
    /\ hist.pendingPrefix = 3
    /\ Count("poll") = 4
    /\ sleeps = 3

\* C5: an interrupt raised during Polling, after n polling lookups were
\* issued, ends the invocation Interrupted with exactly n polling lookups:
\* no remote call follows the interrupt.
C5_InterruptStopsPolling ==
    hist.interruptedAt >= 0 =>
        /\ pc = "done"
        /\ outcome = "Interrupted"
        /\ Count("poll") = hist.interruptedAt
        /\ Len(calls) = hist.interruptedCalls

C5_Witness ==
    /\ outcome = "Interrupted"
    /\ hist.interruptedIn = "poll_sleep"
    /\ hist.interruptedAt = 2
    /\ sleeps = 2
    /\ Count("poll") = 2

\* C6: when secret_set is set and its lookup reports the set absent, the
\* invocation ends Failed and no create or update is dispatched.
C6_MissingSecretSetIsTerminal ==
    hist.secret = "absent" =>
        /\ pc = "done"
        /\ outcome = "Failed"
        /\ ~Submitted

C6_Witness ==
    /\ IsSet(params.secret_set)
    /\ hist.secret = "absent"
    /\ outcome = "Failed"
    /\ Len(calls) = 2

\* C7: when image_credentials is set and its lookup reports the set absent
\* (no error), no create or update is dispatched and the invocation ends
\* Failed.
C7_MissingCredentialsAreTerminal ==
    hist.creds = "absent" =>
        /\ ~Submitted
        /\ pc = "done" => outcome = "Failed"

\* C8: when the image_credentials lookup returns an error: a Validation
\* error with code "400" lets the submission proceed; any other error ends
\* the invocation Failed with no create or update dispatched.
C8_CredentialsLookupErrors ==
    /\ hist.credsCode400 => ~(pc = "done" /\ ~Submitted)
    /\ (hist.creds = "error" /\ ~hist.credsCode400) =>
            /\ ~Submitted
            /\ pc = "done" => outcome = "Failed"

\* C9: the bubble flag is set exactly while a bubble_error() awaits its call:
\* once a call has returned, succeeded or failed, the flag is clear; so a
\* call made without bubble_error() that returns an error has it presented,
\* also right after a bubbled call.
C9_BubbleIsOneShot ==
    /\ bubble_next = lastCall.pendingBubble
    /\ (lastCall.made /\ ~lastCall.bubble /\ lastCall.error.kind = "int") =>
            lastCall.presentedAfter = lastCall.presentedBefore + 1

C9_Witness ==
    /\ lastCall.made
    /\ lastCall.prevBubble
    /\ ~lastCall.bubble
    /\ lastCall.error.kind = "int"
    /\ lastCall.presentedAfter = lastCall.presentedBefore + 1
    /\ ~bubble_next

\* the last call's response was an HTTP error status that the call does not
\* read as absence
HttpFailure(c) ==
    /\ c.made
    /\ c.status >= 400
    /\ ~(c.not_found_is_empty /\ c.status = 404)

\* C10: a call that fails with an HTTP error status returns the error; in
\* bubble mode the wrapper presents nothing, without bubble mode it presents
\* exactly once.
C10_PresentedOnceUnlessBubbled ==
    HttpFailure(lastCall) =>
        /\ lastCall.error = IntErr(lastCall.status)
        /\ lastCall.result = None
        /\ lastCall.bubble => lastCall.presentedAfter = lastCall.presentedBefore
        /\ ~lastCall.bubble => lastCall.presentedAfter = lastCall.presentedBefore + 1

C10_Witness ==
    /\ HttpFailure(lastCall)
    /\ lastCall.bubble
    /\ lastCall.code400
    /\ lastCall.error = IntErr(400)
    /\ lastCall.presentedAfter = lastCall.presentedBefore

\* the last call failed: no response at all, or an HTTP error status that
\* the call does not read as absence
Failed(c) == c.made /\ (c.status = 0 \/ HttpFailure(c))

\* C11: a call that fails, by a transport failure in particular, returns a
\* non-null error: no failed call returns (null, null).
C11_FailureReturnsError ==
    Failed(lastCall) => lastCall.error.kind # "None"

\* C12: a call made with not_found_is_empty that is answered 404 returns
\* (null, null) and presents nothing; a call made without the flag that is
\* answered 404 returns a non-null error.
C12_NotFoundIsEmpty ==
    (lastCall.made /\ lastCall.status = 404) =>
        IF lastCall.not_found_is_empty
        THEN /\ lastCall.result = None
             /\ lastCall.error = None
             /\ lastCall.presentedAfter = lastCall.presentedBefore
        ELSE lastCall.error = IntErr(404)

C12_Witness ==
    /\ lastCall.made
    /\ lastCall.status = 404
    /\ lastCall.not_found_is_empty
    /\ lastCall.result = None
    /\ lastCall.error = None
    /\ steps = 1

\* ---------------------------------------------- deploy configuration

\* optional integers are sets of at most one element (empty = None)
Val(opt) == CHOOSE v \in opt : TRUE

\* the validation without its comparison of the two bounds
ScalingRaisesNoOrder(min, max) ==
    IF min # {} /\ Val(min) < 0 THEN TRUE
    ELSE max # {} /\ Val(max) < 1

\* ScalingParams.__attrs_post_init__: whether construction raises ValueError
ScalingRaises(min, max) ==
    IF min # {} /\ Val(min) < 0 THEN TRUE
    ELSE IF max # {}
         THEN IF Val(max) < 1 THEN TRUE
              ELSE min # {} /\ Val(max) < Val(min)
         ELSE FALSE

\* a ScalingParams instance
ScalingParams(min, max) ==
    [kind |-> "ScalingParams", min_instances |-> min, max_instances |-> max]

\* DeployConfigParams() as deploy.py:286 takes it: every field unset, a
\* scaling object with the default minimum
DefaultDeployConfig ==
    [kind |-> "DeployConfigParams",
     attrs |-> {"agent_name", "image", "image_credentials", "secret_set", "scaling"},
     agent_name |-> "None", image |-> "None", image_url |-> "None",
     image_credentials |-> "None", secret_set |-> "None",
     scaling |-> ScalingParams({0}, {})]

\* the instance load_deploy_config_file builds (deploy_utils.py:68-74): its
\* attributes are those of the class at deploy_utils.py:35-41, which has
\* image_url and neither image nor image_credentials
LoadedDeployConfig(agent_name, image_url, secret_set, scaling) ==
    [kind |-> "DeployConfigParams",
     attrs |-> {"agent_name", "image_url", "secret_set", "scaling", "secrets"},
     agent_name |-> agent_name, image |-> "None", image_url |-> image_url,
     image_credentials |-> "None", secret_set |-> secret_set,
     scaling |-> scaling]

\* the keys load_deploy_config_file accepts (deploy_utils.py:77)
ExpectedKeys == {"agent_name", "image_url", "secret_set", "scaling", "secrets"}

\* the [scaling] table of a file is empty: `if scaling_data` is false
EmptyTable(t) == t.min_instances = {} /\ t.max_instances = {} /\ ~t.extra

\* ScalingParams(**scaling_data): both attributes are required and no other
\* keyword is accepted (TypeError), then __attrs_post_init__ (ValueError)
ScalingFromTable(t) ==
    IF t.extra \/ t.min_instances = {} \/ t.max_instances = {}
    THEN [raised |-> TRUE, value |-> None]
    ELSE IF ScalingRaises(t.min_instances, t.max_instances)
    THEN [raised |-> TRUE, value |-> None]
    ELSE [raised |-> FALSE,
          value |-> ScalingParams(t.min_instances, t.max_instances)]

\* the top-level keys of a parsed file
FileKeys(file) ==
    {k \in {"agent_name", "image_url", "secret_set", "scaling"} :
        file[k] # {}} \cup file.extra

Raised == [raised |-> TRUE, value |-> None]

\* the loader without its check for unexpected keys
LoadDeployConfigFileAnyKeys(file) ==
    IF file.kind = "missing" THEN Raised
    ELSE IF file.kind = "unparsable" THEN Raised
    ELSE LET table == IF file.scaling = {} THEN None ELSE Val(file.scaling)
             scaling == IF table.kind = "None" \/ EmptyTable(table)
                        THEN [raised |-> FALSE, value |-> None]
                        ELSE ScalingFromTable(table)
         IN  IF scaling.raised THEN Raised
             ELSE IF file.agent_name = {} THEN Raised
             ELSE [raised |-> FALSE,
                   value |-> LoadedDeployConfig(
                                Val(file.agent_name),
                                Get(file.image_url, "None"),
                                Get(file.secret_set, "None"),
                                scaling.value)]

\* the loader answering None for a file that does not parse
LoadDeployConfigFileLenient(file) ==
    IF file.kind = "missing" THEN Raised
    ELSE IF file.kind = "unparsable" THEN [raised |-> FALSE, value |-> None]
    ELSE LET table == IF file.scaling = {} THEN None ELSE Val(file.scaling)
             scaling == IF table.kind = "None" \/ EmptyTable(table)
                        THEN [raised |-> FALSE, value |-> None]
                        ELSE ScalingFromTable(table)
         IN  IF scaling.raised THEN Raised
             ELSE IF file.agent_name = {} THEN Raised
             ELSE IF FileKeys(file) \ ExpectedKeys # {} THEN Raised
             ELSE [raised |-> FALSE,
                   value |-> LoadedDeployConfig(
                                Val(file.agent_name),
                                Get(file.image_url, "None"),
                                Get(file.secret_set, "None"),
                                scaling.value)]

\* load_deploy_config_file (deploy_utils.py:53-86): every exception inside
\* the try block, FileNotFoundError included, becomes ConfigFileError
LoadDeployConfigFile(file) ==
    IF file.kind = "missing" THEN Raised
    ELSE IF file.kind = "unparsable" THEN Raised
    ELSE LET table == IF file.scaling = {} THEN None ELSE Val(file.scaling)
             scaling == IF table.kind = "None" \/ EmptyTable(table)
                        THEN [raised |-> FALSE, value |-> None]
                        ELSE ScalingFromTable(table)
         IN  IF scaling.raised THEN Raised
             ELSE IF file.agent_name = {} THEN Raised
             ELSE IF FileKeys(file) \ ExpectedKeys # {} THEN Raised
             ELSE [raised |-> FALSE,
                   value |-> LoadedDeployConfig(
                                Val(file.agent_name),
                                Get(file.image_url, "None"),
                                Get(file.secret_set, "None"),
                                scaling.value)]

\* ---- the deploy command (deploy.py:226-355)

\* `a or b` on optional strings
OrStr(a, b) == IF IsSet(a) THEN a ELSE b

\* deploy.py:297-300: a string option over the file/default value
MergeStr(cli_value, partial_value) == OrStr(cli_value, partial_value)

\* the merge had it tested the option's truth instead of `is not None`
MergeIntTruthy(cli_value, partial_value) ==
    IF cli_value # {} /\ Val(cli_value) # 0 THEN cli_value ELSE partial_value

\* deploy.py:302-307: `x if x is not None else partial_config.scaling.x`
MergeInt(cli_value, partial_value) ==
    IF cli_value # {} THEN cli_value ELSE partial_value

HasAttr(obj, name) == name \in obj.attrs

\* partial_config.scaling.<name>, read only where scaling is an object
ScalingAttr(scaling, name) ==
    IF scaling.kind = "None" THEN {} ELSE scaling[name]

\* deploy.py:296-308: CLI arguments over partial_config.  Reading an
\* attribute the instance does not have, or an attribute of None, raises
\* AttributeError; ScalingParams may raise ValueError.
MergeConfig(cli, partial) ==
    IF ~IsSet(cli.image) /\ ~HasAttr(partial, "image")
    THEN [exception |-> "AttributeError", merged |-> None]
    ELSE IF ~IsSet(cli.credentials) /\ ~HasAttr(partial, "image_credentials")
    THEN [exception |-> "AttributeError", merged |-> None]
    ELSE IF (cli.min_instances = {} \/ cli.max_instances = {})
            /\ partial.scaling.kind = "None"
    THEN [exception |-> "AttributeError", merged |-> None]
    ELSE LET min == MergeInt(cli.min_instances,
                             ScalingAttr(partial.scaling, "min_instances"))
             max == MergeInt(cli.max_instances,
                             ScalingAttr(partial.scaling, "max_instances"))
             merged ==
                [kind |-> "merged",
                 agent_name |-> MergeStr(cli.agent_name, partial.agent_name),
                 image |-> MergeStr(cli.image, partial.image),
                 image_credentials |->
                    MergeStr(cli.credentials, partial.image_credentials),
                 secret_set |-> MergeStr(cli.secret_set, partial.secret_set),
                 min_instances |-> min,
                 max_instances |-> max]
         IN  [exception |-> IF ScalingRaises(min, max)
                            THEN "ValueError" ELSE "none",
              merged |-> merged]

\* the validation without its agent-name test
RequiredMissingImageOnly(merged) == ~IsSet(merged.image)

\* deploy.py:310-317: agent name and image are required
RequiredMissing(merged) == ~IsSet(merged.agent_name) \/ ~IsSet(merged.image)

\* what the command line can pass (typer keeps --min-instances >= 0 and
\* --max-instances within 1..50)
CliArgs ==
    [agent_name : {"None", "", "cli-agent"},
     image : {"None", "cli-image"},
     credentials : {"None", "cli-creds"},
     secret_set : {"None", "cli-secrets"},
     min_instances : {{}, {0}, {3}},
     max_instances : {{}, {2}, {5}},
     skip_confirm : BOOLEAN]

Table(min, max, extra) ==
    [kind |-> "table", min_instances |-> min, max_instances |-> max,
     extra |-> extra]

\* [scaling] tables of a deploy file
Tables == {Table({}, {}, FALSE), Table({2}, {5}, FALSE), Table({5}, {2}, FALSE),
           Table({}, {5}, FALSE), Table({2}, {5}, TRUE)}

\* the deploy file: missing, not TOML, or a TOML document
Files ==
    {[kind |-> "missing"], [kind |-> "unparsable"]}
    \cup [kind : {"toml"},
          agent_name : {{}, {""}, {"file-agent"}},
          image_url : {{}, {"file-image"}},
          secret_set : {{}, {"file-secrets"}},
          scaling : {{}} \cup {{t} : t \in Tables},
          extra : {{}, {"bogus_field"}}]

InitConfig ==
    /\ error = None
    /\ bubble_next = FALSE
    /\ presented = 0
    /\ pc = "cmd"
    /\ params = [secret_set |-> "None", image_credentials |-> "None"]
    /\ force = FALSE
    /\ existing_agent = FALSE
    /\ active_deployment_id = "None"
    /\ is_ready = FALSE
    /\ checks_performed = 0
    /\ outcome = "None"
    /\ calls = << >>
    /\ sleeps = 0
    /\ hist = HistInit
    /\ lastCall = NoCall
    /\ steps = 0
    /\ \E cli \in CliArgs : \E file \in Files :
        cfg = [kind |-> "command", stage |-> "start", cli |-> cli,
               file |-> file, load |-> "none", merged |-> None,
               exception |-> "none"]

\* deploy.py:355: _deploy(partial_config, org, skip_confirm)
CallDeploy(merged, skip_confirm) ==
    /\ pc' = "check"
    /\ params' = [secret_set |-> merged.secret_set,
                  image_credentials |-> merged.image_credentials]
    /\ force' = skip_confirm
    /\ UNCHANGED outcome

\* deploy.py:278-347: load the file, merge, validate; without --force the
\* command then asks for confirmation, with it _deploy is called
ResolveConfig ==
    /\ pc = "cmd"
    /\ LET load == LoadDeployConfigFile(cfg.file)
           partial == IF ~load.raised /\ Truthy(load.value)
                      THEN load.value ELSE DefaultDeployConfig
           m == MergeConfig(cfg.cli, partial)
       IN
       IF load.raised
       THEN /\ End("ConfigError")
            /\ cfg' = [cfg EXCEPT !.stage = "ended", !.load = "ConfigFileError"]
            /\ UNCHANGED <<params, force>>
       ELSE LET loaded == IF Truthy(load.value) THEN "config" ELSE "None" IN
            IF m.exception # "none"
            THEN /\ End("Raised")
                 /\ cfg' = [cfg EXCEPT !.stage = "ended", !.load = loaded,
                                       !.merged = m.merged,
                                       !.exception = m.exception]
                 /\ UNCHANGED <<params, force>>
            ELSE IF RequiredMissing(m.merged)
            THEN /\ End("ConfigError")
                 /\ cfg' = [cfg EXCEPT !.stage = "ended", !.load = loaded,
                                       !.merged = m.merged]
                 /\ UNCHANGED <<params, force>>
            ELSE IF cfg.cli.skip_confirm
            THEN /\ CallDeploy(m.merged, TRUE)
                 /\ cfg' = [cfg EXCEPT !.stage = "deploying", !.load = loaded,
                                       !.merged = m.merged]
            ELSE /\ pc' = "cmd_confirm"
                 /\ cfg' = [cfg EXCEPT !.stage = "resolved", !.load = loaded,
                                       !.merged = m.merged]
                 /\ UNCHANGED <<params, force, outcome>>
    /\ UNCHANGED <<existing_agent, calls, sleeps, hist>>
    /\ UNCHANGED clientVars
    /\ UNCHANGED pollVars
    /\ UNCHANGED apiVars

\* deploy.py:347-355: "Do you want to proceed with deployment?"
ConfirmDeploy ==
    /\ pc = "cmd_confirm"
    /\ \E answer \in BOOLEAN :
        IF answer
        THEN /\ CallDeploy(cfg.merged, cfg.cli.skip_confirm)
             /\ cfg' = [cfg EXCEPT !.stage = "deploying"]
        ELSE /\ End("Cancelled")
             /\ cfg' = [cfg EXCEPT !.stage = "ended"]
             /\ UNCHANGED <<params, force>>
    /\ UNCHANGED <<existing_agent, calls, sleeps, hist>>
    /\ UNCHANGED clientVars
    /\ UNCHANGED pollVars
    /\ UNCHANGED apiVars

\* the deploy command up to the first remote call _deploy makes
NextConfig ==
    \/ ResolveConfig
    \/ ConfirmDeploy
    \/ CheckExisting

SpecConfig == InitConfig /\ [][NextConfig]_vars

\* ---- properties of the deploy command

\* the command has loaded a schema-valid file and gone on to the merge
Loaded == cfg.kind = "command" /\ cfg.load = "config"

\* the merge produced a configuration (nothing raised)
Merged == Loaded /\ cfg.exception = "none" /\ cfg.merged.kind = "merged"

\* CLI value if passed, else file value if the file has the key, else default
LayeredStr(cli_value, file_value, default) ==
    IF IsSet(cli_value) THEN cli_value
    ELSE IF file_value # {} THEN Val(file_value) ELSE default

LayeredInt(cli_value, file_table, name, default) ==
    IF cli_value # {} THEN cli_value
    ELSE IF file_table # {} /\ Val(file_table)[name] # {}
         THEN Val(file_table)[name] ELSE default

\* C13: for each of agent_name, image, image_credentials, secret_set,
\* scaling.min_instances and scaling.max_instances the resolved value is the
\* CLI value if passed, else the file's, else the default, field by field:
\* whenever a valid file was loaded and the merged scaling is not itself
\* invalid, the merge yields a configuration with exactly those values.
C13_MergePerField ==
    (Loaded /\ cfg.exception # "ValueError") =>
        /\ Merged
        /\ cfg.merged.agent_name =
              LayeredStr(cfg.cli.agent_name, cfg.file.agent_name, "None")
        /\ cfg.merged.image =
              LayeredStr(cfg.cli.image, cfg.file.image_url, "None")
        /\ cfg.merged.image_credentials =
              LayeredStr(cfg.cli.credentials, {}, "None")
        /\ cfg.merged.secret_set =
              LayeredStr(cfg.cli.secret_set, cfg.file.secret_set, "None")
        /\ cfg.merged.min_instances =
              LayeredInt(cfg.cli.min_instances, cfg.file.scaling,
                         "min_instances", {0})
        /\ cfg.merged.max_instances =
              LayeredInt(cfg.cli.max_instances, cfg.file.scaling,
                         "max_instances", {})

HasUnknownKey(file) ==
    /\ file.kind = "toml"
    /\ \/ file.extra # {}
       \/ file.scaling # {} /\ Val(file.scaling).extra

\* the command ended on a file error: reported, nothing merged, nothing sent
EndedOnFileError ==
    /\ cfg.load = "ConfigFileError"
    /\ cfg.merged = None
    /\ pc = "done"
    /\ outcome = "ConfigError"
    /\ calls = << >>

C17_MissingFileIsAbsent ==
    (cfg.kind = "command" /\ cfg.file.kind = "missing" /\ cfg.stage # "start")
        => /\ cfg.load = "None"
           /\ cfg.cli.agent_name = "cli-agent" /\ cfg.cli.image = "cli-image"
                => cfg.merged.kind = "merged"

InvalidMerged(m) ==
    \/ m.agent_name \in {"None", ""}
    \/ m.image \in {"None", ""}
    \/ m.min_instances # {} /\ Val(m.min_instances) < 0
    \/ m.max_instances # {} /\ Val(m.max_instances) < 1
    \/ /\ m.min_instances # {} /\ m.max_instances # {}
       /\ Val(m.max_instances) < Val(m.min_instances)

MaxInstances == 5

\* Optional[int] arguments
OptInts == {{}} \cup {{i} : i \in -1..MaxInstances}

\* JSON values: None, a string, a number, a dict (a set of <<key, value>>)
PyStr(s) == IF s = "None" THEN None ELSE [kind |-> "str", v |-> s]
PyInt(opt) == IF opt = {} THEN None ELSE [kind |-> "int", v |-> Val(opt)]
PyDict(items) == [kind |-> "dict", items |-> items]

\* api.py:271-280: the payload before cleaning
DeployPayload(config) ==
    {<<"serviceName", PyStr(config.agent_name)>>,
     <<"image", PyStr(config.image)>>,
     <<"imagePullSecretSet", PyStr(config.image_credentials)>>,
     <<"secretSet", PyStr(config.secret_set)>>,
     <<"autoScaling",
       PyDict({<<"minReplicas", PyInt(config.scaling.min_instances)>>,
               <<"maxReplicas", PyInt(config.scaling.max_instances)>>})>>}

\* api.py:283-288: remove_none_values
RECURSIVE RemoveNoneValues(_)
RemoveNoneValues(d) ==
    {<<kv[1], IF kv[2].kind = "dict"
              THEN PyDict(RemoveNoneValues(kv[2].items)) ELSE kv[2]>> :
        kv \in {x \in d : x[2].kind # "None"}}

\* the cleaning had it filtered the top level only
CleanedPayloadShallow(config) ==
    {x \in DeployPayload(config) : x[2].kind # "None"}

\* api.py:290: cleaned_payload
CleanedPayload(config) == RemoveNoneValues(DeployPayload(config))

\* configurations handed to API.deploy
DeployConfigs ==
    [kind : {"DeployConfigParams"},
     agent_name : {"None", "", "my-agent"},
     image : {"None", "my-image"},
     image_credentials : {"None", "my-creds"},
     secret_set : {"None", "my-secrets"},
     scaling : {ScalingParams(min, max) :
                    min \in {{}, {0}, {2}}, max \in {{}, {5}}}]

InitFn ==
    /\ error = None
    /\ bubble_next = FALSE
    /\ presented = 0
    /\ pc = "fn"
    /\ params = [secret_set |-> "None", image_credentials |-> "None"]
    /\ force = FALSE
    /\ existing_agent = FALSE
    /\ active_deployment_id = "None"
    /\ is_ready = FALSE
    /\ checks_performed = 0
    /\ outcome = "None"
    /\ calls = << >>
    /\ sleeps = 0
    /\ hist = HistInit
    /\ lastCall = NoCall
    /\ steps = 0
    /\ cfg = None

\* ScalingParams(min_instances=min, max_instances=max)
ConstructScaling ==
    /\ pc = "fn"
    /\ \E min \in OptInts : \E max \in OptInts :
        cfg' = [kind |-> "scaling", min |-> min, max |-> max,
                raised |-> ScalingRaises(min, max)]
    /\ UNCHANGED calls
    /\ UNCHANGED deployVars
    /\ UNCHANGED clientVars
    /\ UNCHANGED pollVars
    /\ UNCHANGED apiVars

\* the json argument API.deploy passes to _base_request
BuildDeployPayload ==
    /\ pc = "fn"
    /\ \E config \in DeployConfigs :
        cfg' = [kind |-> "payload", config |-> config,
                cleaned |-> CleanedPayload(config)]
    /\ UNCHANGED calls
    /\ UNCHANGED deployVars
    /\ UNCHANGED clientVars
    /\ UNCHANGED pollVars
    /\ UNCHANGED apiVars

NextFn ==
    \/ ConstructScaling
    \/ BuildDeployPayload

SpecFn == InitFn /\ [][NextFn]_vars

\* the condition under which the specification lets a ScalingSpec be built
ScalingAllowed(min, max) ==
    /\ min = {} \/ Val(min) >= 0
    /\ max = {} \/ Val(max) >= 1
    /\ (min # {} /\ max # {}) => Val(max) >= Val(min)

\* C15: constructing ScalingParams succeeds exactly when min_instances is
\* unset or >= 0, max_instances is unset or >= 1, and max_instances >=
\* min_instances when both are set; otherwise it raises.
C15_ScalingValidation ==
    cfg.kind = "scaling" => (cfg.raised <=> ~ScalingAllowed(cfg.min, cfg.max))

\* ScalingParams(min_instances=5, max_instances=2) raised
C15_Witness ==
    /\ cfg.kind = "scaling"
    /\ cfg.min = {5}
    /\ cfg.max = {2}
    /\ cfg.raised

\* the values a dict holds under a key
Under(items, key) == {kv[2] : kv \in {x \in items : x[1] = key}}

\* no None anywhere in a dict
RECURSIVE NoNone(_)
NoNone(items) ==
    \A kv \in items :
        /\ kv[2].kind # "None"
        /\ kv[2].kind = "dict" => NoNone(kv[2].items)

\* a string field appears under its key exactly when it is set, unchanged
CarriesStr(items, key, s) ==
    Under(items, key) = IF s = "None" THEN {} ELSE {[kind |-> "str", v |-> s]}

CarriesInt(items, key, opt) ==
    Under(items, key) = {[kind |-> "int", v |-> i] : i \in opt}

\* C20: the create/update payload has no key, at any depth, whose source
\* field was None, and each key present carries its source value.
C20_PayloadHasNoNone ==
    cfg.kind = "payload" =>
        /\ NoNone(cfg.cleaned)
        /\ CarriesStr(cfg.cleaned, "serviceName", cfg.config.agent_name)
        /\ CarriesStr(cfg.cleaned, "image", cfg.config.image)
        /\ CarriesStr(cfg.cleaned, "imagePullSecretSet",
                      cfg.config.image_credentials)
        /\ CarriesStr(cfg.cleaned, "secretSet", cfg.config.secret_set)
        /\ \E auto \in Under(cfg.cleaned, "autoScaling") :
              /\ Under(cfg.cleaned, "autoScaling") = {auto}
              /\ auto.kind = "dict"
              /\ CarriesInt(auto.items, "minReplicas",
                            cfg.config.scaling.min_instances)
              /\ CarriesInt(auto.items, "maxReplicas",
                            cfg.config.scaling.max_instances)

\* a configuration with no credentials and no maximum: both keys are gone,
\* the minimum of zero stays
C20_Witness ==
    /\ cfg.kind = "payload"
    /\ cfg.config.image_credentials = "None"
    /\ cfg.config.scaling.max_instances = {}
    /\ cfg.config.scaling.min_instances = {0}
    /\ cfg.config.agent_name = "my-agent"
    /\ Under(cfg.cleaned, "imagePullSecretSet") = {}
    /\ \E auto \in Under(cfg.cleaned, "autoScaling") :
          /\ Under(auto.items, "maxReplicas") = {}
          /\ Under(auto.items, "minReplicas") = {[kind |-> "int", v |-> 0]}

\* ---- further properties of the orchestrator and the client

\* the invocation is in the polling loop, or ended from inside it
PollingStarted ==
    \/ pc \in InPolling
    \/ pc = "done" /\ (Count("poll") > 0 \/ outcome = "Interrupted")

\* C21: after a submission that returns no error, a create whose result is
\* null/empty ends the invocation Failed with no polling lookup issued; an
\* update whose result is null/empty is accepted and polling starts.
C21_EmptyResultOfCreateFails ==
    hist.submit = "empty" =>
        /\ ~existing_agent =>
              pc = "done" /\ outcome = "Failed" /\ Count("poll") = 0
        /\ existing_agent => PollingStarted

\* an update answered with an empty result, polled afterwards
C21_Witness ==
    /\ hist.submit = "empty"
    /\ existing_agent
    /\ calls[Len(calls)].site = "poll"
    /\ pc = "poll_wait"

\* C22: an existence lookup that fails for a reason other than not-found (an
\* HTTP error status or a transport failure) ends the invocation Failed, and
\* no other remote call follows it.
C22_LookupFailureIsTerminal ==
    hist.exists \in {"error", "transport"} =>
        /\ pc = "done"
        /\ outcome = "Failed"
        /\ Len(calls) = 1

\* the error carries the code of a structured body
CarriesCode(e, code) == e.kind \notin {"None", "int"} /\ e.code = code

\* C23: a non-2xx response with a structured {code, error} body is returned
\* as an error carrying that code; without such a body the error carries
\* the HTTP status.
C23_StructuredBodyGivesCode ==
    (lastCall.made /\ HttpFailure(lastCall) /\ lastCall.status # 401) =>
        IF lastCall.code400
        THEN CarriesCode(lastCall.error, "400")
        ELSE lastCall.error = IntErr(lastCall.status)

\* C24: a deploy file with agent_name and an image but no [scaling] table
\* loads with a scaling object carrying the defaults, so that merging CLI
\* scaling arguments over it is defined: with the image and the credentials
\* given on the command line, the merge raises no AttributeError and a
\* minimum left unset resolves to 0.
C24_NoScalingTableLoadsDefaults ==
    (/\ Loaded
     /\ cfg.file.scaling = {}
     /\ IsSet(cfg.cli.image)
     /\ IsSet(cfg.cli.credentials)) =>
        /\ cfg.exception # "AttributeError"
        /\ (Merged /\ cfg.cli.min_instances = {}) =>
              cfg.merged.min_instances = {0}

\* a polling lookup was answered and the invocation has not been interrupted
PolledUninterrupted == hist.polled > 0 /\ hist.interruptedAt = -1

\* C25: a polling lookup that returns an error or no status ends the
\* invocation Failed with no further lookup; an invocation that reached
\* polling ends in Ready, TimedOut, Failed or Interrupted only.
C25_PollFailureEndsFailed ==
    /\ (PolledUninterrupted /\ ~hist.lastPoll.valid) =>
          /\ pc = "done"
          /\ outcome = "Failed"
          /\ Count("poll") = hist.polled
    /\ (pc = "done" /\ Count("poll") > 0) =>
          outcome \in {"Ready", "TimedOut", "Failed", "Interrupted"}

\* the place of a call site in the order of remote calls
Rank(site) ==
    CASE site = "check" -> 1
      [] site = "secret" -> 2
      [] site = "creds" -> 3
      [] site = "submit" -> 4
      [] site = "poll" -> 5

\* C26: the remote calls of one invocation come in the order existence
\* lookup, secret-set lookup (only if secret_set is set), credentials lookup
\* (only if image_credentials is set), create-or-update, polling lookups;
\* at most one create/update is dispatched, and a polling lookup is issued
\* only after the create/update returned without error.
C26_RemoteCallOrder ==
    /\ calls # << >> => calls[1].site = "check"
    /\ \A i, j \in DOMAIN calls :
          i < j => /\ Rank(calls[i].site) <= Rank(calls[j].site)
                   /\ calls[i].site = calls[j].site => calls[i].site = "poll"
    /\ Count("secret") > 0 => IsSet(params.secret_set)
    /\ Count("creds") > 0 => IsSet(params.image_credentials)
    /\ Count("submit") > 0 =>
          /\ IsSet(params.secret_set) => Count("secret") = 1
          /\ IsSet(params.image_credentials) => Count("creds") = 1
    /\ Count("submit") <= 1
    /\ Count("poll") > 0 =>
          Count("submit") = 1 /\ hist.submit \in {"empty", "result"}

\* all five kinds of call made, in order, two polling lookups among them
C26_Witness ==
    /\ Len(calls) = 6
    /\ calls[2].site = "secret"
    /\ calls[3].site = "creds"
    /\ calls[4].site = "submit"
    /\ calls[5].site = "poll"
    /\ calls[6].site = "poll"

\* C27: the active deployment id is null until a polled status reports
\* one, and from then on it is the first id reported: no later status of the
\* invocation, with another id or with none, replaces or clears it.
C27_DeploymentIdRecordedOnce == active_deployment_id = hist.firstId

\* d1 recorded, then a status with another id or none, d1 still held
C27_Witness ==
    /\ hist.otherId
    /\ hist.firstId = "d1"
    /\ active_deployment_id = "d1"
    /\ pc = "poll_sleep"

\* C28: the error a call returns depends only on that call's own response:
\* a call that succeeds returns a null error, and an error that is returned
\* is the status of this call's response, whatever error the preceding
\* call on the same client left behind.
C28_ErrorIsTheCallsOwn ==
    lastCall.made =>
        /\ ~Failed(lastCall) => lastCall.error = None
        /\ lastCall.error # None => lastCall.error = IntErr(lastCall.status)

\* a call answered 200 right after a call that failed with 500
C28_Witness ==
    /\ lastCall.made
    /\ lastCall.errorBefore = IntErr(500)
    /\ lastCall.status = 200
    /\ lastCall.error = None

\* ---- the secrets set command (cli/commands/secrets.py:109-292)

\* a KEY=value argument after split and strip: the key by its length and
\* whether all its characters are letters, digits, underscore or hyphen,
\* the value by whether it is empty
SecretKeys ==
    {[len |-> 0, word |-> TRUE]}
    \cup [len : {1, 64, 65}, word : BOOLEAN]

SecretPairs == [key : SecretKeys, value_empty : BOOLEAN]

SecretArgs == {<<a>> : a \in SecretPairs}
              \cup {<<a, b>> : a \in SecretPairs, b \in SecretPairs}

\* secrets.py:30-47: validate_secrets returns typer.Exit(1) for the first
\* pair that fails a test, and None when every pair passes
RECURSIVE ValidateSecrets(_)
ValidateSecrets(secrets) ==
    IF secrets = << >> THEN "None"
    ELSE LET s == Head(secrets) IN
         IF s.key.len = 0 \/ s.value_empty THEN "Exit"
         ELSE IF s.key.len > 64 THEN "Exit"
         ELSE IF ~s.key.word THEN "Exit"
         ELSE ValidateSecrets(Tail(secrets))

\* secrets.py:215: `if not key or not value` while the arguments are parsed
ParseRejects(secrets) ==
    \E i \in DOMAIN secrets : secrets[i].key.len = 0 \/ secrets[i].value_empty

InitSecrets ==
    /\ error = None
    /\ bubble_next = FALSE
    /\ presented = 0
    /\ pc = "set"
    /\ params = [secret_set |-> "None", image_credentials |-> "None"]
    /\ force = FALSE
    /\ existing_agent = FALSE
    /\ active_deployment_id = "None"
    /\ is_ready = FALSE
    /\ checks_performed = 0
    /\ outcome = "None"
    /\ calls = << >>
    /\ sleeps = 0
    /\ hist = HistInit
    /\ lastCall = NoCall
    /\ steps = 0
    /\ \E secrets \in SecretArgs : \E skip_confirm \in BOOLEAN :
       \E name_valid \in BOOLEAN :
        cfg = [kind |-> "secrets", secrets |-> secrets,
               skip_confirm |-> skip_confirm, name_valid |-> name_valid,
               validation |-> "none", existing_set |-> "none",
               sent |-> << >>]

\* the frame of the secrets command's actions
SecretsFrame ==
    /\ UNCHANGED <<params, force, existing_agent, sleeps, hist>>
    /\ UNCHANGED clientVars
    /\ UNCHANGED pollVars
    /\ UNCHANGED apiVars

\* secrets.py:140-246: name check, parsing of the KEY=value arguments, the
\* call of validate_secrets (whose return value the command does not use),
\* then the table and the first confirmation unless --skip
ParseSecrets ==
    /\ pc = "set"
    /\ IF ~cfg.name_valid THEN End("Exit") /\ UNCHANGED cfg
       ELSE IF ParseRejects(cfg.secrets) THEN End("Exit") /\ UNCHANGED cfg
       ELSE /\ cfg' = [cfg EXCEPT !.validation = ValidateSecrets(cfg.secrets)]
            /\ pc' = IF ~cfg.skip_confirm THEN "set_confirm" ELSE "set_lookup"
            /\ UNCHANGED outcome
    /\ UNCHANGED calls
    /\ SecretsFrame

\* secrets.py:244-246: "Would you like to proceed with these secrets?"
ConfirmSecrets ==
    /\ pc = "set_confirm"
    /\ \E looks_good \in BOOLEAN :
        IF looks_good THEN pc' = "set_lookup" /\ UNCHANGED outcome
        ELSE End("Exit")
    /\ UNCHANGED <<calls, cfg>>
    /\ SecretsFrame

\* secrets.py:249-279: look the set up; ask before overwriting or creating
\* unless --skip
LookupSecretSet ==
    /\ pc = "set_lookup"
    /\ calls' = Append(calls, Call("get_secret_set", "GET", "secrets/set"))
    /\ \E answer \in {"raises", "none", "disjoint", "overlapping"} :
        IF answer = "raises" THEN End("Exit") /\ UNCHANGED cfg
        ELSE /\ cfg' = [cfg EXCEPT !.existing_set = answer]
             /\ pc' = IF cfg.skip_confirm \/ answer = "disjoint"
                      THEN "set_send" ELSE "set_ask"
             /\ UNCHANGED outcome
    /\ SecretsFrame

\* secrets.py:267-279: the overwrite / create confirmation
ConfirmCreate ==
    /\ pc = "set_ask"
    /\ \E create \in BOOLEAN :
        IF create THEN pc' = "set_send" /\ UNCHANGED outcome
        ELSE End("Exit")
    /\ UNCHANGED <<calls, cfg>>
    /\ SecretsFrame

\* secrets.py:281-292: one _create_secret request of the loop (PUT); a
\* failed request ends the command, after the last one it reports success
SendSecret ==
    /\ pc = "set_send"
    /\ LET next == cfg.secrets[Len(cfg.sent) + 1] IN
       /\ calls' = Append(calls, Call("create_secret", "PUT", "secrets/set"))
       /\ cfg' = [cfg EXCEPT !.sent = Append(@, next)]
       /\ \E ok \in BOOLEAN :
            IF ~ok THEN End("Exit")
            ELSE IF Len(cfg.sent) + 1 = Len(cfg.secrets)
            THEN End("Created")
            ELSE pc' = "set_send" /\ UNCHANGED outcome
    /\ SecretsFrame

NextSecrets ==
    \/ ParseSecrets
    \/ ConfirmSecrets
    \/ LookupSecretSet
    \/ ConfirmCreate
    \/ SendSecret

SpecSecrets == InitSecrets /\ [][NextSecrets]_vars

\* the pair passes the rules for secrets: key and value non-empty, key of
\* at most 64 characters, all of them letters, digits, underscore or hyphen
ValidSecret(s) ==
    /\ s.key.len > 0
    /\ ~s.value_empty
    /\ s.key.len <= 64
    /\ s.key.word

\* C29: the secrets set command sends no secret whose key fails validation:
\* when any supplied pair is invalid, no create-secret request is issued.
C29_InvalidSecretsAreNotSent ==
    (cfg.kind = "secrets"
     /\ \E i \in DOMAIN cfg.secrets : ~ValidSecret(cfg.secrets[i])) =>
        /\ cfg.sent = << >>
        /\ Count("create_secret") = 0

\* ---- termination of a deploy invocation

\* every remote call returns and every prompt is answered: a step that can
\* be taken is eventually taken
SpecLive == Init /\ [][Next]_vars /\ WF_vars(Next)

\* the numbers of remote calls stay within their bounds
CallsWithinBounds ==
    /\ Count("poll") <= MAX_ALIVE_CHECKS
    /\ Len(calls) - Count("poll") <= 4

\* C30: every deploy invocation whose remote calls return and whose prompts
\* are answered eventually ends, having issued at most MAX_ALIVE_CHECKS
\* polling lookups and at most four other remote calls.
C30_TerminatesWithinBounds == <>(pc = "done") /\ []CallsWithinBounds

\* a timed-out invocation that made all four other calls
C30_Witness ==
    /\ pc = "done"
    /\ outcome = "TimedOut"
    /\ Count("poll") = MAX_ALIVE_CHECKS
    /\ Len(calls) = MAX_ALIVE_CHECKS + 4

====
